---- MODULE Spec2Model ----
(***************************************************************************)
(* Availability computation of calendaro (src/lib/availability.ts).        *)
(*                                                                         *)
(* Instants are milliseconds since 1970-01-01T00:00 in the single          *)
(* reference time base the library works in.  Date-time strings are        *)
(* records [date |-> <<year, month, day>>, ms |-> millisecond of the day]; *)
(* date labels ("yyyy-MM-dd") are triples <<year, month, day>>.            *)
(* A JavaScript number that may be non-finite is a record [kind, v].       *)
(***************************************************************************)
EXTENDS Integers, Sequences, FiniteSets, TLC

VARIABLES availability, bookings, busyTimes, clock, pc,
          slotDurationMinutes, date, startDate, endDate,
          threw, slots, dates, hasSlot

vars == <<availability, bookings, busyTimes, clock, pc,
          slotDurationMinutes, date, startDate, endDate,
          threw, slots, dates, hasSlot>>

----------------------------------------------------------------------------
(* Program constants *)

MsPerMinute == 60000

MsPerDay == 86400000

(* Bounds of the model *)

NumDays == 2

MaxWindows == 2

MaxBookings == 1

MaxBusy == 1

----------------------------------------------------------------------------
(* date-fns *)

startOfDay(t) == t - (t % MsPerDay)

endOfDay(t) == startOfDay(t) + MsPerDay - 1

addMinutes(t, n) == t + n * MsPerMinute

addDays(t, n) == t + n * MsPerDay

isWithinInterval(t, start, end) == t >= start /\ t <= end

MonthLengths == <<31, 28, 31, 30, 31, 30, 31, 31, 30, 31, 30, 31>>

RECURSIVE DaysBeforeMonth(_)
DaysBeforeMonth(m) == IF m <= 1 THEN 0 ELSE DaysBeforeMonth(m - 1) + MonthLengths[m - 1]

RECURSIVE MonthOfDay(_, _)
MonthOfDay(n, m) == IF n < DaysBeforeMonth(m + 1) THEN m ELSE MonthOfDay(n, m + 1)

\* format(t, "yyyy-MM-dd") for an instant of 1970
format(t) ==
    LET n == t \div MsPerDay
        m == MonthOfDay(n, 1)
    IN  <<1970, m, n - DaysBeforeMonth(m) + 1>>

\* parseISO of a date-time string
parseISO(s) ==
    (DaysBeforeMonth(s.date[2]) + s.date[3] - 1) * MsPerDay + s.ms

\* the date-time string of an instant (what the availability source stores)
toISO(t) == [date |-> format(t), ms |-> t % MsPerDay]

----------------------------------------------------------------------------
(* JavaScript numbers and arrays *)

Num(n) == [kind |-> "num", v |-> n]

PosInf == [kind |-> "inf", v |-> 0]

NegInf == [kind |-> "-inf", v |-> 0]

NaN == [kind |-> "nan", v |-> 0]

\* Math.floor(a / b)
MathFloorDiv(a, b) ==
    IF b > 0 THEN Num(a \div b)
    ELSE IF b < 0 THEN Num((0 - a) \div (0 - b))
    ELSE IF a > 0 THEN PosInf
    ELSE IF a < 0 THEN NegInf
    ELSE NaN

\* Math.ceil(a / b), b > 0
MathCeilDiv(a, b) == 0 - ((0 - a) \div b)

Ok(v) == [err |-> FALSE, val |-> v]

RangeError(v) == [err |-> TRUE, val |-> v]

\* Array.from({ length: n }, (_, i) => f(i)): the length is ToLength(n), and a
\* length above 2^32 - 1 makes the Array constructor throw a RangeError.
ArrayFromLength(n) ==
    IF n.kind = "inf" THEN RangeError(0)
    ELSE IF n.kind = "num" /\ n.v > 0 THEN Ok(n.v)
    ELSE Ok(0)

RECURSIVE FlatMap(_, _, _)
\* concatenation of F[i] over i = from..to, in order
FlatMap(F, from, to) ==
    IF from > to THEN <<>> ELSE F[from] \o FlatMap(F, from + 1, to)

----------------------------------------------------------------------------
(* src/lib/availability.ts *)

\* generateSlotStarts: the start instants of the slots of a time range
generateSlotStarts(rangeStart, rangeEnd, durationMinutes) ==
    LET slotCount == MathFloorDiv(rangeEnd - rangeStart, durationMinutes * 60 * 1000)
        len == ArrayFromLength(slotCount)
    IN  IF len.err THEN RangeError(<<>>)
        ELSE Ok([i \in 1..len.val |-> addMinutes(rangeStart, (i - 1) * durationMinutes)])

\* the availability blocks of a day, as computeAvailableSlots selects them
slotsAvailabilityForDate(avail, dayStart, dayEnd) ==
    SelectSeq(avail, LAMBDA slot :
        LET slotStart == parseISO(slot.startDateTime)
            slotEnd == parseISO(slot.endDateTime)
        IN  \/ isWithinInterval(slotStart, dayStart, dayEnd)
            \/ isWithinInterval(slotEnd, dayStart, dayEnd)
            \/ (slotStart <= dayStart /\ slotEnd >= dayEnd))

\* a variant of datesAvailabilityForDate that forgets the blocks that span the day
datesAvailabilityForDateEndpointsOnly(avail, dayStart, dayEnd) ==
    SelectSeq(avail, LAMBDA slot :
        LET slotStart == parseISO(slot.startDateTime)
            slotEnd == parseISO(slot.endDateTime)
        IN  \/ isWithinInterval(slotStart, dayStart, dayEnd)
            \/ isWithinInterval(slotEnd, dayStart, dayEnd))

\* the availability blocks of a day, as computeAvailableDates selects them
datesAvailabilityForDate(avail, dayStart, dayEnd) ==
    SelectSeq(avail, LAMBDA slot :
        LET slotStart == parseISO(slot.startDateTime)
            slotEnd == parseISO(slot.endDateTime)
        IN  \/ isWithinInterval(slotStart, dayStart, dayEnd)
            \/ isWithinInterval(slotEnd, dayStart, dayEnd)
            \/ (slotStart <= dayStart /\ slotEnd >= dayEnd))

\* a variant of hasBookingConflict that only sees a booking that starts inside the slot
hasBookingConflictStartInside(bks, currentStart, currentEnd) ==
    \E i \in 1..Len(bks) :
        LET bookingStart == parseISO(bks[i].startTime)
        IN  bookingStart >= currentStart /\ bookingStart < currentEnd

\* computeAvailableSlots: is the slot blocked by a booking
hasBookingConflict(bks, currentStart, currentEnd) ==
    \E i \in 1..Len(bks) :
        LET bookingStart == parseISO(bks[i].startTime)
            bookingEnd == parseISO(bks[i].endTime)
        IN  currentStart < bookingEnd /\ currentEnd > bookingStart

\* a variant of hasBusyConflict with closed intervals
hasBusyConflictInclusive(busy, currentStart, currentEnd) ==
    \E i \in 1..Len(busy) :
        currentStart <= busy[i].end /\ currentEnd >= busy[i].start

\* computeAvailableSlots: is the slot blocked by a busy time
hasBusyConflict(busy, currentStart, currentEnd) ==
    \E i \in 1..Len(busy) :
        currentStart < busy[i].end /\ currentEnd > busy[i].start

\* a variant of slotsClampStart that does not clamp
slotsClampStartNone(availStart, dayStart) == availStart

\* a variant of slotsClampEnd that clamps at the midnight after the day
slotsClampEndAtMidnight(availEnd, dayEnd) == IF availEnd > dayEnd THEN dayEnd + 1 ELSE availEnd

\* computeAvailableSlots: the clamp of an availability block to the day
slotsClampStart(availStart, dayStart) == IF availStart < dayStart THEN dayStart ELSE availStart

slotsClampEnd(availEnd, dayEnd) == IF availEnd > dayEnd THEN dayEnd ELSE availEnd

\* computeAvailableSlots: the filter of past slots
notPast(slotStarts, now) == SelectSeq(slotStarts, LAMBDA currentStart : currentStart >= now)

\* computeAvailableSlots: what one availability block contributes
slotsOfBlock(availSlot, bks, dayStart, dayEnd, now, durationMinutes, busy) ==
    LET availStart == parseISO(availSlot.startDateTime)
        availEnd == parseISO(availSlot.endDateTime)
        slotStart == slotsClampStart(availStart, dayStart)
        slotEnd == slotsClampEnd(availEnd, dayEnd)
        slotStarts == generateSlotStarts(slotStart, slotEnd, durationMinutes)
        free == SelectSeq(notPast(slotStarts.val, now), LAMBDA currentStart :
                    LET currentEnd == addMinutes(currentStart, durationMinutes)
                    IN  /\ ~hasBookingConflict(bks, currentStart, currentEnd)
                        /\ ~hasBusyConflict(busy, currentStart, currentEnd))
    IN  IF slotStarts.err THEN RangeError(<<>>)
        ELSE Ok([i \in 1..Len(free) |->
                    [start |-> free[i], end |-> addMinutes(free[i], durationMinutes)]])

RECURSIVE Dedup(_, _)
Dedup(seq, acc) ==
    IF seq = <<>> THEN acc
    ELSE Dedup(Tail(seq),
               IF \E i \in 1..Len(acc) : acc[i] = Head(seq) THEN acc
               ELSE Append(acc, Head(seq)))

\* a variant of flatMapBlocks that returns every slot once
flatMapBlocksDedup(perBlock) ==
    Dedup(FlatMap([i \in 1..Len(perBlock) |-> perBlock[i].val], 1, Len(perBlock)), <<>>)

\* flatMap of computeAvailableSlots: the blocks' slots, concatenated in order
flatMapBlocks(perBlock) == FlatMap([i \in 1..Len(perBlock) |-> perBlock[i].val], 1, Len(perBlock))

computeAvailableSlots(avail, bks, dt, durationMinutes, busy) ==
    LET dayStart == startOfDay(dt)
        dayEnd == endOfDay(dt)
        now == clock
        availabilityForDate == slotsAvailabilityForDate(avail, dayStart, dayEnd)
        perBlock == [i \in 1..Len(availabilityForDate) |->
                        slotsOfBlock(availabilityForDate[i], bks, dayStart, dayEnd,
                                     now, durationMinutes, busy)]
    IN  IF \E i \in 1..Len(perBlock) : perBlock[i].err THEN RangeError(<<>>)
        ELSE Ok(flatMapBlocks(perBlock))

\* checkDayHasAvailableSlot: is the slot blocked by a booking
checkHasBookingConflict(bks, currentStart, currentEnd) ==
    \E i \in 1..Len(bks) :
        LET bookingStart == parseISO(bks[i].startTime)
            bookingEnd == parseISO(bks[i].endTime)
        IN  currentStart < bookingEnd /\ currentEnd > bookingStart

\* checkDayHasAvailableSlot: is the slot blocked by a busy time
checkHasBusyConflict(busy, currentStart, currentEnd) ==
    \E i \in 1..Len(busy) :
        currentStart < busy[i].end /\ currentEnd > busy[i].start

\* a variant of checkBlock that looks at the first potential slot only
checkBlockFirstSlotOnly(availSlot, bks, dayStart, dayEnd, durationMinutes, busy) ==
    LET availStart == parseISO(availSlot.startDateTime)
        availEnd == parseISO(availSlot.endDateTime)
        slotStart == IF availStart < dayStart THEN dayStart ELSE availStart
        slotEnd == IF availEnd > dayEnd THEN dayEnd ELSE availEnd
        potentialSlots == generateSlotStarts(slotStart, slotEnd, durationMinutes)
    IN  IF potentialSlots.err THEN RangeError(FALSE)
        ELSE Ok(\E i \in 1..(IF Len(potentialSlots.val) > 1 THEN 1 ELSE Len(potentialSlots.val)) :
                  LET currentStart == potentialSlots.val[i]
                      currentEnd == addMinutes(currentStart, durationMinutes)
                  IN  /\ ~checkHasBookingConflict(bks, currentStart, currentEnd)
                      /\ ~checkHasBusyConflict(busy, currentStart, currentEnd))

\* checkDayHasAvailableSlot: has one availability block a free slot
checkBlock(availSlot, bks, dayStart, dayEnd, durationMinutes, busy) ==
    LET availStart == parseISO(availSlot.startDateTime)
        availEnd == parseISO(availSlot.endDateTime)
        slotStart == IF availStart < dayStart THEN dayStart ELSE availStart
        slotEnd == IF availEnd > dayEnd THEN dayEnd ELSE availEnd
        potentialSlots == generateSlotStarts(slotStart, slotEnd, durationMinutes)
    IN  IF potentialSlots.err THEN RangeError(FALSE)
        ELSE Ok(\E i \in 1..Len(potentialSlots.val) :
                  LET currentStart == potentialSlots.val[i]
                      currentEnd == addMinutes(currentStart, durationMinutes)
                  IN  /\ ~checkHasBookingConflict(bks, currentStart, currentEnd)
                      /\ ~checkHasBusyConflict(busy, currentStart, currentEnd))

RECURSIVE checkFrom(_, _, _, _, _, _, _)
\* availabilityForDate.some(...), from block i on: it stops at the first block
\* that has a free slot, and a block that throws ends it
checkFrom(i, availabilityForDate, bks, dayStart, dayEnd, durationMinutes, busy) ==
    IF i > Len(availabilityForDate) THEN Ok(FALSE)
    ELSE LET r == checkBlock(availabilityForDate[i], bks, dayStart, dayEnd,
                             durationMinutes, busy)
         IN  IF r.err \/ r.val THEN r
             ELSE checkFrom(i + 1, availabilityForDate, bks, dayStart, dayEnd,
                            durationMinutes, busy)

checkDayHasAvailableSlot(availabilityForDate, bks, dayStart, dayEnd, durationMinutes, busy) ==
    checkFrom(1, availabilityForDate, bks, dayStart, dayEnd, durationMinutes, busy)

\* a variant of daysInRange that keeps the days before today
daysInRangeWithPast(sd, ed, today) ==
    LET dayCount == MathCeilDiv(ed - sd, 1000 * 60 * 60 * 24) + 1
        len == ArrayFromLength(Num(dayCount)).val
        days == [i \in 1..len |-> addDays(startOfDay(sd), i - 1)]
    IN  SelectSeq(days, LAMBDA currentDate : currentDate <= ed)

\* computeAvailableDates: the days of the range that are kept before the
\* availability is looked at
daysInRange(sd, ed, today) ==
    LET dayCount == MathCeilDiv(ed - sd, 1000 * 60 * 60 * 24) + 1
        len == ArrayFromLength(Num(dayCount)).val
        days == [i \in 1..len |-> addDays(startOfDay(sd), i - 1)]
    IN  SelectSeq(days, LAMBDA currentDate : currentDate >= today /\ currentDate <= ed)

\* computeAvailableDates: the second filter, for one day
dayIsAvailable(avail, bks, currentDate, durationMinutes, busy) ==
    LET dayStart == startOfDay(currentDate)
        dayEnd == endOfDay(currentDate)
        availabilityForDate == datesAvailabilityForDate(avail, dayStart, dayEnd)
    IN  IF Len(availabilityForDate) = 0 THEN Ok(FALSE)
        ELSE checkDayHasAvailableSlot(availabilityForDate, bks, dayStart, dayEnd,
                                      durationMinutes, busy)

computeAvailableDates(avail, bks, sd, ed, durationMinutes, busy) ==
    LET today == startOfDay(clock)
        days == daysInRange(sd, ed, today)
        keep == [i \in 1..Len(days) |-> dayIsAvailable(avail, bks, days[i], durationMinutes, busy)]
        kept == SelectSeq(days, LAMBDA currentDate :
                    dayIsAvailable(avail, bks, currentDate, durationMinutes, busy).val)
    IN  IF \E i \in 1..Len(keep) : keep[i].err THEN RangeError(<<>>)
        ELSE Ok([i \in 1..Len(kept) |-> format(kept[i])])

----------------------------------------------------------------------------
(* The inputs the functions are called with *)

\* the inputs lie on a grid of half days
GridStep == MsPerDay \div 2

\* the instants the inputs are drawn from: NumDays days and the midnight after
Times == {k * GridStep : k \in 0..(NumDays * 2)}

\* availability blocks: every interval of the grid
Intervals == {iv \in Times \X Times : iv[1] < iv[2]}

\* bookings and busy times: the intervals of one grid step
BlockIntervals == {iv \in Intervals : iv[2] - iv[1] = GridStep}

\* the readings of the clock: after the first instant, before the last midnight
Clocks == {t \in Times : 0 < t /\ t < NumDays * MsPerDay}

\* the range starts of computeAvailableDates: the instants of the first day
RangeStarts == {t \in Times : t < MsPerDay}

\* slot durations, in minutes: a quarter of a day, half a day, a whole day, and
\* the malformed zero and negative ones
Durations == {0 - 360, 0, 360, 720, 1440}

AvailabilitySlot(k, iv) ==
    [key |-> k, startDateTime |-> toISO(iv[1]), endDateTime |-> toISO(iv[2])]

BookingSlot(k, iv) ==
    [id |-> k, startTime |-> toISO(iv[1]), endTime |-> toISO(iv[2])]

BusyTime(iv) == [start |-> iv[1], end |-> iv[2]]

TypeOK ==
    /\ pc \in {"idle", "slots", "dates", "check"}
    /\ clock \in Times
    /\ threw \in BOOLEAN
    /\ hasSlot \in BOOLEAN
    /\ Len(availability) <= MaxWindows
    /\ Len(bookings) <= MaxBookings
    /\ Len(busyTimes) <= MaxBusy

Init ==
    /\ \E n \in 0..MaxWindows : \E f \in [1..n -> Intervals] :
          availability = [i \in 1..n |-> AvailabilitySlot(i, f[i])]
    /\ \E n \in 0..MaxBookings : \E f \in [1..n -> BlockIntervals] :
          bookings = [i \in 1..n |-> BookingSlot(i, f[i])]
    /\ \E n \in 0..MaxBusy : \E f \in [1..n -> BlockIntervals] :
          busyTimes = [i \in 1..n |-> BusyTime(f[i])]
    /\ clock \in Clocks
    /\ pc = "idle"
    /\ slotDurationMinutes = 30
    /\ date = 0
    /\ startDate = 0
    /\ endDate = 0
    /\ threw = FALSE
    /\ slots = <<>>
    /\ dates = <<>>
    /\ hasSlot = FALSE

\* a call of computeAvailableSlots
CallComputeAvailableSlots ==
    /\ pc = "idle"
    /\ \E dt \in Times, d \in Durations :
          LET r == computeAvailableSlots(availability, bookings, dt, d, busyTimes)
          IN  /\ date' = dt
              /\ slotDurationMinutes' = d
              /\ threw' = r.err
              /\ slots' = r.val
    /\ pc' = "slots"
    /\ UNCHANGED <<availability, bookings, busyTimes, clock, startDate, endDate,
                   dates, hasSlot>>

\* a call of computeAvailableDates
CallComputeAvailableDates ==
    /\ pc = "idle"
    /\ \E sd \in RangeStarts, ed \in Times, d \in Durations :
          LET r == computeAvailableDates(availability, bookings, sd, ed, d, busyTimes)
          IN  /\ sd <= ed
              /\ startDate' = sd
              /\ endDate' = ed
              /\ slotDurationMinutes' = d
              /\ threw' = r.err
              /\ dates' = r.val
    /\ pc' = "dates"
    /\ UNCHANGED <<availability, bookings, busyTimes, clock, date, slots, hasSlot>>

\* the day filter of computeAvailableDates on one day: it selects the day's
\* availability blocks and, when there are some, calls checkDayHasAvailableSlot
CallCheckDayHasAvailableSlot ==
    /\ pc = "idle"
    /\ \E dt \in Times, d \in Durations :
          LET r == dayIsAvailable(availability, bookings, dt, d, busyTimes)
          IN  /\ dt = startOfDay(dt)
              /\ date' = dt
              /\ slotDurationMinutes' = d
              /\ threw' = r.err
              /\ hasSlot' = r.val
    /\ pc' = "check"
    /\ UNCHANGED <<availability, bookings, busyTimes, clock, startDate, endDate,
                   slots, dates>>

Next ==
    \/ CallComputeAvailableSlots
    \/ CallComputeAvailableDates
    \/ CallCheckDayHasAvailableSlot

Spec == Init /\ [][Next]_vars

----------------------------------------------------------------------------
(* The vocabulary of the properties, stated on sets of instants *)

DayStarts == {t \in Times : t % MsPerDay = 0}

\* the day a call of computeAvailableSlots or of the day filter is about
TargetDay == date - (date % MsPerDay)

NextMidnight(D) == D + MsPerDay

LastInstant(D) == D + MsPerDay - 1

DurationMs == slotDurationMinutes * MsPerMinute

WStart(w) == parseISO(w.startDateTime)

WEnd(w) == parseISO(w.endDateTime)

Max(a, b) == IF a >= b THEN a ELSE b

Min(a, b) == IF a <= b THEN a ELSE b

\* the window and the day [D, LastInstant(D)] have an instant in common
Intersects(w, D) == WStart(w) <= LastInstant(D) /\ WEnd(w) >= D

ClipStart(w, D) == Max(WStart(w), D)

ClipEnd(w, D) == Min(WEnd(w), LastInstant(D))

\* the starts of the candidate slots of window w on day D: the lattice from the
\* clipped start, every slot inside the clipped window
CandidatesOf(w, D) ==
    IF DurationMs > 0 /\ Intersects(w, D)
    THEN {s \in {ClipStart(w, D) + k * DurationMs : k \in 0..(MsPerDay \div DurationMs)} :
             s + DurationMs <= ClipEnd(w, D)}
    ELSE {}

\* strict half-open overlap of [s, e) with [c, d)
Overlaps(s, e, c, d) == s < d /\ e > c

Blocked(s) ==
    \/ \E i \in 1..Len(bookings) :
          Overlaps(s, s + DurationMs, parseISO(bookings[i].startTime),
                   parseISO(bookings[i].endTime))
    \/ \E i \in 1..Len(busyTimes) :
          Overlaps(s, s + DurationMs, busyTimes[i].start, busyTimes[i].end)

\* the slot [s, s + duration) touches a booking or a busy time at a boundary
Touches(s) ==
    \/ \E i \in 1..Len(bookings) :
          \/ s + DurationMs = parseISO(bookings[i].startTime)
          \/ s = parseISO(bookings[i].endTime)
    \/ \E i \in 1..Len(busyTimes) :
          \/ s + DurationMs = busyTimes[i].start
          \/ s = busyTimes[i].end

FreeOf(w, D) == {s \in CandidatesOf(w, D) : ~Blocked(s)}

SurvivingOf(w, D) == {s \in FreeOf(w, D) : s >= clock}

SlotsReturned == pc = "slots" /\ ~threw

DatesReturned == pc = "dates" /\ ~threw

CheckReturned == pc = "check" /\ ~threw

SlotSet == {slots[i] : i \in 1..Len(slots)}

DateSet == {dates[i] : i \in 1..Len(dates)}

\* the days of the grid that lie in the queried range
DaysOfRange == {D \in DayStarts : D + MsPerDay > startDate /\ D <= endDate}

Today == clock - (clock % MsPerDay)

----------------------------------------------------------------------------
(* Properties *)

\* C1: for a positive slot duration, no slot returned by computeAvailableSlots
\* overlaps (strictly, half-open) any booking or busy time.
C1_NoOverlap ==
    (SlotsReturned /\ slotDurationMinutes > 0) =>
        \A i \in 1..Len(slots) :
            /\ \A j \in 1..Len(bookings) :
                  ~Overlaps(slots[i].start, slots[i].end,
                            parseISO(bookings[j].startTime), parseISO(bookings[j].endTime))
            /\ \A j \in 1..Len(busyTimes) :
                  ~Overlaps(slots[i].start, slots[i].end,
                            busyTimes[j].start, busyTimes[j].end)

\* C1 witness: slots were returned for a day on which a booking and a busy time
\* each blocked a candidate slot of an availability block.
C1_Witness ==
    /\ SlotsReturned
    /\ slotDurationMinutes > 0
    /\ slots # <<>>
    /\ \E w \in 1..Len(availability) : \E s \in CandidatesOf(availability[w], TargetDay) :
          \E j \in 1..Len(bookings) :
              Overlaps(s, s + DurationMs, parseISO(bookings[j].startTime),
                       parseISO(bookings[j].endTime))
    /\ \E w \in 1..Len(availability) : \E s \in CandidatesOf(availability[w], TargetDay) :
          \E j \in 1..Len(busyTimes) :
              Overlaps(s, s + DurationMs, busyTimes[j].start, busyTimes[j].end)

\* C2 (as claimed): after computeAvailableDates returns, a day of the queried
\* range is among the dates exactly when computeAvailableSlots, called for that
\* day with the same inputs and the same clock reading, returns some slot.
C2_AggregatorsAgree ==
    DatesReturned =>
        \A D \in DaysOfRange :
            LET r == computeAvailableSlots(availability, bookings, D,
                                           slotDurationMinutes, busyTimes)
            IN  ~r.err => ((format(D) \in DateSet) <=> (r.val # <<>>))

\* C3: computeAvailableSlots returns no slot that starts before the clock
\* reading, and computeAvailableDates returns no date before today.
C3_PastExclusion ==
    /\ SlotsReturned => \A i \in 1..Len(slots) : slots[i].start >= clock
    /\ DatesReturned =>
          \A i \in 1..Len(dates) : parseISO([date |-> dates[i], ms |-> 0]) >= Today

\* C3 witness: computeAvailableDates was asked for a range that starts before
\* today, a day before today has a free slot, and a date was returned.
C3_Witness ==
    /\ DatesReturned
    /\ dates # <<>>
    /\ startDate < Today
    /\ \E D \in DaysOfRange :
          /\ D < Today
          /\ \E w \in 1..Len(availability) : FreeOf(availability[w], D) # {}

\* C4: a candidate slot of computeAvailableSlots that starts at or after the
\* clock reading, touches a booking or a busy time at a boundary and overlaps
\* none is among the returned slots.
C4_BackToBack ==
    (SlotsReturned /\ slotDurationMinutes > 0) =>
        \A w \in 1..Len(availability) :
            \A s \in CandidatesOf(availability[w], TargetDay) :
                (s >= clock /\ Touches(s) /\ ~Blocked(s)) =>
                    [start |-> s, end |-> s + DurationMs] \in SlotSet

\* C4 witness: a returned slot ends exactly where a booking starts, and a
\* returned slot starts exactly where a busy time ends.
C4_Witness ==
    /\ SlotsReturned
    /\ slotDurationMinutes > 0
    /\ \E i \in 1..Len(slots), j \in 1..Len(bookings) :
          slots[i].end = parseISO(bookings[j].startTime)
    /\ \E i \in 1..Len(slots), j \in 1..Len(busyTimes) :
          slots[i].start = busyTimes[j].end

\* C5: for a positive duration d, every returned slot has end = start + d and
\* lies, on the lattice of step d from the clipped start, inside the day-clipped
\* range of an availability block that intersects the target day.
C5_Clipping ==
    (SlotsReturned /\ slotDurationMinutes > 0) =>
        \A i \in 1..Len(slots) :
            /\ slots[i].end = slots[i].start + DurationMs
            /\ \E w \in 1..Len(availability) :
                  /\ Intersects(availability[w], TargetDay)
                  /\ ClipStart(availability[w], TargetDay) <= slots[i].start
                  /\ slots[i].end <= ClipEnd(availability[w], TargetDay)
                  /\ (slots[i].start - ClipStart(availability[w], TargetDay)) % DurationMs = 0

\* C5 witness: a slot was returned from an availability block that starts before
\* the target day and ends after it, so both ends were clipped.
C5_Witness ==
    /\ SlotsReturned
    /\ slotDurationMinutes > 0
    /\ slots # <<>>
    /\ \E w \in 1..Len(availability) :
          /\ WStart(availability[w]) < TargetDay
          /\ WEnd(availability[w]) > LastInstant(TargetDay)
          /\ SurvivingOf(availability[w], TargetDay) # {}

\* C6 (as claimed): with a zero or negative slot duration no call faults,
\* computeAvailableSlots returns no slot and computeAvailableDates no date.
C6_NonPositiveDurationEmpty ==
    (pc \in {"slots", "dates"} /\ slotDurationMinutes <= 0) =>
        (~threw /\ slots = <<>> /\ dates = <<>>)

\* a day that an availability block spans while no block starts or ends on it
SpannedOnly(D) ==
    /\ \E w \in 1..Len(availability) :
          WStart(availability[w]) <= D /\ WEnd(availability[w]) >= LastInstant(D)
    /\ \A w \in 1..Len(availability) :
          /\ ~(WStart(availability[w]) >= D /\ WStart(availability[w]) <= LastInstant(D))
          /\ ~(WEnd(availability[w]) >= D /\ WEnd(availability[w]) <= LastInstant(D))

\* C7: computeAvailableDates includes a day of the range that is not before
\* today and is fully spanned by an availability block, although no block
\* starts or ends on it, when the duration is positive and at most a day and
\* some candidate slot of the day is unblocked.
C7_SpannedDayIncluded ==
    (DatesReturned /\ slotDurationMinutes > 0 /\ DurationMs <= MsPerDay) =>
        \A D \in DaysOfRange :
            ( /\ D >= Today
              /\ SpannedOnly(D)
              /\ \E w \in 1..Len(availability) : FreeOf(availability[w], D) # {} )
            => format(D) \in DateSet

\* C7 witness: a spanned day on which no block starts or ends was returned.
C7_Witness ==
    /\ DatesReturned
    /\ slotDurationMinutes > 0
    /\ \E D \in DaysOfRange :
          /\ D >= Today
          /\ SpannedOnly(D)
          /\ format(D) \in DateSet

\* C8: the day check returns true exactly when the set of unblocked candidate
\* slots of the day, over all intersecting blocks and with no clock filter, is
\* not empty.
C8_CheckIsExistence ==
    CheckReturned =>
        (hasSlot <=> (\E w \in 1..Len(availability) : FreeOf(availability[w], TargetDay) # {}))

\* C8 witness: the check returned true although the first candidate slot of the
\* first intersecting block is blocked.
C8_Witness ==
    /\ CheckReturned
    /\ hasSlot
    /\ \E w \in 1..Len(availability) :
          /\ Intersects(availability[w], TargetDay)
          /\ \A v \in 1..(w - 1) : ~Intersects(availability[v], TargetDay)
          /\ CandidatesOf(availability[w], TargetDay) # {}
          /\ Blocked(ClipStart(availability[w], TargetDay))

RECURSIVE SurvivorsBefore(_)
\* the number of surviving slots of the blocks before block i
SurvivorsBefore(i) ==
    IF i <= 1 THEN 0
    ELSE SurvivorsBefore(i - 1) + Cardinality(SurvivingOf(availability[i - 1], TargetDay))

\* C9: the result of computeAvailableSlots is the concatenation, in the order of
\* the blocks, of each block's surviving slots in ascending order; nothing is
\* deduplicated, so a slot that k blocks produce occurs k times.
C9_Concatenation ==
    (SlotsReturned /\ slotDurationMinutes > 0) =>
        /\ Len(slots) = SurvivorsBefore(Len(availability) + 1)
        /\ \A i \in 1..Len(availability) :
              LET off == SurvivorsBefore(i)
                  n == Cardinality(SurvivingOf(availability[i], TargetDay))
              IN  /\ {slots[off + k].start : k \in 1..n} = SurvivingOf(availability[i], TargetDay)
                  /\ \A k \in 1..(n - 1) : slots[off + k].start < slots[off + k + 1].start
        /\ \A v \in SlotSet :
              Cardinality({p \in 1..Len(slots) : slots[p] = v}) =
              Cardinality({i \in 1..Len(availability) :
                              v.start \in SurvivingOf(availability[i], TargetDay)})

\* C9 witness: two blocks produced the same slot and it was returned twice.
C9_Witness ==
    /\ SlotsReturned
    /\ slotDurationMinutes > 0
    /\ \E p, q \in 1..Len(slots) : p # q /\ slots[p] = slots[q]

\* one availability block covers the whole day D and nothing blocks anything
WholeDayFree(D) ==
    /\ Len(availability) = 1
    /\ WStart(availability[1]) <= D
    /\ WEnd(availability[1]) >= LastInstant(D)
    /\ bookings = <<>>
    /\ busyTimes = <<>>
    /\ clock <= D

\* C10: no returned slot ends at or after the midnight that follows the target
\* day; a day covered by one block, with nothing blocked, the clock not after
\* the day's start and a duration that divides 24 hours has (24h / duration) - 1
\* slots; with a duration of 24 hours computeAvailableDates leaves the day out.
C10_LastSlotOfDayLost ==
    /\ SlotsReturned => \A i \in 1..Len(slots) : slots[i].end < NextMidnight(TargetDay)
    /\ ( /\ SlotsReturned
         /\ slotDurationMinutes > 0
         /\ MsPerDay % DurationMs = 0
         /\ WholeDayFree(TargetDay) )
       => Len(slots) = (MsPerDay \div DurationMs) - 1
    /\ (DatesReturned /\ DurationMs = MsPerDay) =>
          \A D \in DaysOfRange : WholeDayFree(D) => format(D) \notin DateSet

\* C10 witness: a whole free day was asked for with a duration of a quarter of
\* a day, and three slots were returned.
C10_Witness ==
    /\ SlotsReturned
    /\ WholeDayFree(TargetDay)
    /\ DurationMs * 4 = MsPerDay
    /\ Len(slots) = 3

====
